---------------------------- MODULE Spec2Model ----------------------------
(***************************************************************************)
(* The expense tracker bot: parse_expense (src/expense_parser.py), the     *)
(* sheet manager (src/sheets_manager.py) and the message handlers          *)
(* (src/bot.py).                                                           *)
(*                                                                         *)
(* A text is a sequence of characters, each character a one-character      *)
(* string: <<"$", "1", "0", " ", "f", "o", "o", "d">> is "$10 food".       *)
(* A float is held as its exact count of 10^-FracDigits (125000 is 12.5);  *)
(* the amounts drawn below have at most FracDigits fraction digits, for    *)
(* which float() and str() give the decimal back with its trailing zeros   *)
(* dropped.                                                                *)
(***************************************************************************)
EXTENDS Integers, Sequences, FiniteSets, TLC

VARIABLES
    input,           \* SpecParse: the slots the message text is built from
    message,         \* SpecParse: the argument of parse_expense
    expense,         \* SpecParse: what parse_expense returned
    ppc,             \* SpecParse: "call" before the call, "returned" after
    sheets_manager,  \* bot.py global: None or the manager
    worksheet,       \* the 'Expenses' worksheet: its data rows, in append order
    clock,           \* datetime.now(), in whole seconds
    msgs,            \* the messages received so far, each with its handler's progress
    ready_succeeded  \* history: some on_ready has built the manager

parseVars == <<input, message, expense, ppc>>
botVars == <<sheets_manager, worksheet, clock, msgs, ready_succeeded>>
vars == <<input, message, expense, ppc, sheets_manager, worksheet, clock,
          msgs, ready_succeeded>>

\* Python's None (a record, so that it compares with the records it stands in for)
None == [none |-> TRUE]

---------------------------------------------------------------------------
(* Characters.                                                             *)

UpperCase == <<"A", "B", "C", "D", "E", "F", "G", "H", "I", "J", "K", "L", "M",
               "N", "O", "P", "Q", "R", "S", "T", "U", "V", "W", "X", "Y", "Z">>
LowerCase == <<"a", "b", "c", "d", "e", "f", "g", "h", "i", "j", "k", "l", "m",
               "n", "o", "p", "q", "r", "s", "t", "u", "v", "w", "x", "y", "z">>
Digits == <<"0", "1", "2", "3", "4", "5", "6", "7", "8", "9">>

\* str.isspace / the regex class \s, on the characters drawn here
IsSpace(ch) == ch \in {" ", "\n", "\t"}

\* the regex class \d
IsDigit(ch) == \E i \in 1..10 : Digits[i] = ch

DigitValue(ch) == (CHOOSE i \in 1..10 : Digits[i] = ch) - 1

\* str.lower on one character
LowerChar(ch) ==
    IF \E i \in 1..26 : UpperCase[i] = ch
    THEN LowerCase[CHOOSE i \in 1..26 : UpperCase[i] = ch]
    ELSE ch

\* str.upper on one character
UpperChar(ch) ==
    IF \E i \in 1..26 : LowerCase[i] = ch
    THEN UpperCase[CHOOSE i \in 1..26 : LowerCase[i] = ch]
    ELSE ch

Lower(s) == [i \in 1..Len(s) |-> LowerChar(s[i])]
Upper(s) == [i \in 1..Len(s) |-> UpperChar(s[i])]

\* s[i..j] as Python's s[i-1:j]; empty when j < i
Slice(s, i, j) == IF j < i THEN <<>> ELSE SubSeq(s, i, j)

\* the first position >= i whose character is not a space (Len(s)+1 if none)
RECURSIVE SkipSpaces(_, _)
SkipSpaces(s, i) ==
    IF i <= Len(s) /\ IsSpace(s[i]) THEN SkipSpaces(s, i + 1) ELSE i

\* the first position >= i whose character is a space (Len(s)+1 if none)
RECURSIVE SkipNonSpaces(_, _)
SkipNonSpaces(s, i) ==
    IF i <= Len(s) /\ ~IsSpace(s[i]) THEN SkipNonSpaces(s, i + 1) ELSE i

\* the first position >= i whose character is not a digit (Len(s)+1 if none)
RECURSIVE SkipDigits(_, _)
SkipDigits(s, i) ==
    IF i <= Len(s) /\ IsDigit(s[i]) THEN SkipDigits(s, i + 1) ELSE i

\* the last position <= j whose character is not a space (0 if none)
RECURSIVE LastNonSpace(_, _)
LastNonSpace(s, j) ==
    IF j >= 1 /\ IsSpace(s[j]) THEN LastNonSpace(s, j - 1) ELSE j

\* message.strip()
Strip(s) == Slice(s, SkipSpaces(s, 1), LastNonSpace(s, Len(s)))

---------------------------------------------------------------------------
(* float(amount) and its rendering in the f-string.                        *)

\* int() of a run of digits
RECURSIVE DigitsValue(_)
DigitsValue(ds) ==
    IF ds = <<>> THEN 0
    ELSE 10 * DigitsValue(SubSeq(ds, 1, Len(ds) - 1)) + DigitValue(ds[Len(ds)])

\* the decimal digits of a natural number
RECURSIVE NatStr(_)
NatStr(n) ==
    IF n < 10 THEN <<Digits[n + 1]>>
    ELSE NatStr(n \div 10) \o <<Digits[(n % 10) + 1]>>

\* a text is a float literal of the shape \d+(\.\d+)? (the only shape the
\* pattern's group 2 lets through)
IsAmountText(t) ==
    LET d == SkipDigits(t, 1) IN
    /\ d > 1
    /\ \/ d = Len(t) + 1
       \/ /\ d < Len(t)
          /\ t[d] = "."
          /\ SkipDigits(t, d + 1) = Len(t) + 1

\* the fraction digits a float keeps in this model
FracDigits == 4

RECURSIVE Pow10(_)
Pow10(n) == IF n = 0 THEN 1 ELSE 10 * Pow10(n - 1)

\* ds cut or padded with zeros on the right to n digits
RECURSIVE PadRight(_, _)
PadRight(ds, n) ==
    IF Len(ds) >= n THEN Slice(ds, 1, n) ELSE PadRight(ds \o <<"0">>, n)

\* ds padded with zeros on the left to n digits
RECURSIVE PadLeft(_, _)
PadLeft(ds, n) == IF Len(ds) >= n THEN ds ELSE PadLeft(<<"0">> \o ds, n)

\* ds without its trailing zeros, its first digit always kept
RECURSIVE TrimZeros(_)
TrimZeros(ds) ==
    IF Len(ds) > 1 /\ ds[Len(ds)] = "0"
    THEN TrimZeros(SubSeq(ds, 1, Len(ds) - 1))
    ELSE ds

\* float(t) of such a text, as a count of 10^-FracDigits
FloatOf(t) ==
    LET d == SkipDigits(t, 1)
    IN  Pow10(FracDigits) * DigitsValue(SubSeq(t, 1, d - 1))
        + DigitsValue(PadRight(Slice(t, d + 1, Len(t)), FracDigits))

\* str(x) of a float x >= 0: "10.0" for 10, "12.5" for 12.50, "0.05" for 0.05
FloatStr(x) ==
    NatStr(x \div Pow10(FracDigits)) \o <<".">>
    \o TrimZeros(PadLeft(NatStr(x % Pow10(FracDigits)), FracDigits))

---------------------------------------------------------------------------
(* re.match(pattern, message, re.IGNORECASE) with                          *)
(*   ^([₹$€]|INR|USD|EUR)?\s*(\d+(?:\.\d+)?)\s+([^\s]+)(?:\s+(.+))?$       *)
(* Every quantifier is greedy: the matcher prefers the longest run and     *)
(* gives characters back only when what follows cannot match.  Each piece  *)
(* below tries every end it may take and keeps the one the regex engine    *)
(* reaches first among those for which the rest of the pattern matches.    *)

\* What a piece of the pattern gives from a position: no match, or the
\* groups matched from there on, with `rank` the end the piece took (the
\* regex engine reaches a higher rank first).
NoMatch == [matched |-> FALSE, rank |-> 0]

\* a group that did not take part in the match (m.groups() gives None)
NoGroup == [group |-> FALSE]

Group(s, i, j) == [group |-> TRUE, text |-> Slice(s, i, j)]

\* `g or ''` / `g if g else ''`
OrEmpty(g) == IF g.group THEN g.text ELSE <<>>

\* among the ways a piece can go on, the one the regex engine reaches first
\* for which the rest of the pattern matches
First(results) ==
    IF \E r \in results : r.matched
    THEN CHOOSE r \in results :
            r.matched /\ \A o \in results : o.matched => o.rank <= r.rank
    ELSE NoMatch

OrElse(result, other) == IF result.matched THEN result ELSE other

Ranked(result, rank) == IF result.matched THEN [result EXCEPT !.rank = rank] ELSE result

\* the alternatives of group 1
CurrencySymbols == {"₹", "$", "€"}
CurrencyCodes == {<<"I", "N", "R">>, <<"U", "S", "D">>, <<"E", "U", "R">>}

\* the lengths group 1 may take at the start of s, in the order tried: a
\* marker when one is there (codes in any letter case), then the empty option
CurrencyLens(s) ==
    (IF Len(s) >= 1 /\ s[1] \in CurrencySymbols THEN <<1>>
     ELSE IF Len(s) >= 3 /\ Upper(SubSeq(s, 1, 3)) \in CurrencyCodes THEN <<3>>
     ELSE <<>>) \o <<0>>

\* `.` matches any character but a newline: the first position >= i that
\* `.` does not match
RECURSIVE SkipDots(_, _)
SkipDots(s, i) ==
    IF i <= Len(s) /\ s[i] # "\n" THEN SkipDots(s, i + 1) ELSE i

\* `$`: at the end of the text, or just before a newline that ends it
AtEnd(s, p) == p = Len(s) + 1 \/ (p = Len(s) /\ s[p] = "\n")

\* (.+)$ with group 4 from p to just before e, where `.+` stops
DescriptionTo(s, p, e) ==
    IF e > p /\ AtEnd(s, e)
    THEN [matched |-> TRUE, rank |-> p, description |-> Group(s, p, e - 1)]
    ELSE NoMatch

\* `$` in place of the optional (?:\s+(.+))
NoDescription(s, k) ==
    IF AtEnd(s, k) THEN [matched |-> TRUE, rank |-> 0, description |-> NoGroup]
    ELSE NoMatch

\* (?:\s+(.+))?$ from position k: \s+ takes the longest run of spaces after
\* which (.+)$ matches, and the group is left out only if none does
MatchDescription(s, k) ==
    OrElse(First({DescriptionTo(s, p, SkipDots(s, p)) : p \in (k + 1)..SkipSpaces(s, k)}),
           NoDescription(s, k))

\* group 3 from c to just before e, before the description d
WithCategory(d, s, c, e) ==
    IF d.matched
    THEN [matched |-> TRUE, rank |-> e, category |-> Group(s, c, e - 1),
          description |-> d.description]
    ELSE NoMatch

\* ([^\s]+)(?:\s+(.+))?$ from position c
MatchCategory(s, c) ==
    First({WithCategory(MatchDescription(s, e), s, c, e) :
              e \in (c + 1)..SkipNonSpaces(s, c)})

\* \s+([^\s]+)(?:\s+(.+))?$ from position a (just after the amount)
MatchSeparator(s, a) ==
    First({Ranked(MatchCategory(s, c), c) : c \in (a + 1)..SkipSpaces(s, a)})

\* the ends (\d+(?:\.\d+)?) may take from position a, each as <<d, e>>: the
\* integer digits end before d, the whole amount before e
AmountEnds(s, a) ==
    {de \in ((a + 1)..SkipDigits(s, a)) \X ((a + 1)..(Len(s) + 1)) :
        \/ de[2] = de[1]
        \/ /\ de[1] <= Len(s)
           /\ s[de[1]] = "."
           /\ de[2] \in (de[1] + 2)..SkipDigits(s, de[1] + 1)}

\* group 2 from a to just before de[2], before the rest r; most digits first,
\* and for the same digits the longest fraction first, no fraction last
WithAmount(r, s, a, de) ==
    IF r.matched
    THEN [matched |-> TRUE, rank |-> de[1] * (Len(s) + 2) + de[2],
          amount |-> Group(s, a, de[2] - 1),
          category |-> r.category, description |-> r.description]
    ELSE NoMatch

\* (\d+(?:\.\d+)?)\s+... from position a
MatchAmount(s, a) ==
    First({WithAmount(MatchSeparator(s, de[2]), s, a, de) : de \in AmountEnds(s, a)})

\* \s*(\d+...) from position c (just after group 1)
MatchGap(s, c) ==
    First({Ranked(MatchAmount(s, a), a) : a \in c..SkipSpaces(s, c)})

\* group 1 of length n (left out when n = 0), the i-th option tried
WithCurrency(r, s, n, i) ==
    IF r.matched
    THEN [matched |-> TRUE, rank |-> 0 - i,
          currency |-> IF n = 0 THEN NoGroup ELSE Group(s, 1, n),
          amount |-> r.amount, category |-> r.category,
          description |-> r.description]
    ELSE NoMatch

\* the whole pattern with the options `lens` for group 1
MatchCurrency(s, lens) ==
    First({WithCurrency(MatchGap(s, lens[i] + 1), s, lens[i], i) : i \in 1..Len(lens)})

\* re.match(pattern, s, re.IGNORECASE)
ReMatch(s) == MatchCurrency(s, CurrencyLens(s))

\* a variant of ExpenseRecord that lower-cases the description too
ExpenseRecord_LowerDescription(m, now) ==
    [date |-> now,
     amount |-> Upper(OrEmpty(m.currency)) \o FloatStr(FloatOf(m.amount.text)),
     category |-> Lower(m.category.text),
     description |-> Lower(OrEmpty(m.description))]

\* the dict parse_expense builds from m.groups()
ExpenseRecord(m, now) ==
    [date |-> now,
     amount |-> Upper(OrEmpty(m.currency)) \o FloatStr(FloatOf(m.amount.text)),
     category |-> Lower(m.category.text),
     description |-> OrEmpty(m.description)]

\* `if match: return {...} else: return None`
RecordOrNone(m, now) == IF m.matched THEN ExpenseRecord(m, now) ELSE None

\* parse_expense(message), called when the clock reads `now`
parse_expense(text, now) == RecordOrNone(ReMatch(Strip(text)), now)

---------------------------------------------------------------------------
(* The texts parse_expense is called with: every concatenation             *)
(*   lead marker gap amount sep category rest trail                        *)
(* of one choice per slot.  The marker slot holds the markers of the       *)
(* specification's table (and none), the amount slot well-formed, zero and *)
(* malformed amounts (and none).                                           *)

Leads == {<<>>,
          <<" ">>}
Trails == {<<>>,
           <<" ", "\n">>}
SymbolMarkers == {<<"$">>,
                  <<"₹">>,
                  <<"€">>,
                  <<"¥">>,
                  <<"£">>}
CodeMarkers == {<<"U", "S", "D">>,
                <<"I", "N", "R">>,
                <<"E", "U", "R">>,
                <<"G", "B", "P">>,
                <<"J", "P", "Y">>,
                <<"u", "s", "d">>,
                <<"I", "n", "r">>,
                <<"g", "b", "p">>}
Markers == {<<>>} \cup SymbolMarkers \cup CodeMarkers
Gaps == {<<>>,
         <<" ">>}
AmountTexts == {<<>>,
                <<"1", "0">>,
                <<"0">>,
                <<"0", ".", "0">>,
                <<"1", "2", ".", "5", "0">>,
                <<"0", ".", "0", "5">>,
                <<"1", "2", ".", "3", ".", "4">>,
                <<".", "5">>,
                <<"1", "0", ".">>}
Seps == {<<>>,
         <<" ">>,
         <<" ", " ">>}
Categories == {<<>>,
               <<"f", "o", "o", "d">>,
               <<"L", "u", "n", "c", "h">>,
               <<"a", "t">>,
               <<"2", "0">>}
Rests == {<<>>,
          <<" ", "b", "u", "y", " ", "m", "i", "l", "k", " ", "a", "n", "d", " ", "e", "g", "g", "s">>,
          <<" ", " ", "B", "u", "y", " ", " ", "M", "i", "l", "k">>,
          <<" ", "a", "\n", "b">>,
          <<" ", "\n", " ", "b">>}

Inputs == [lead : Leads, marker : Markers, gap : Gaps, amount : AmountTexts,
           sep : Seps, category : Categories, rest : Rests, trail : Trails]

TextOf(in) == in.lead \o in.marker \o in.gap \o in.amount \o in.sep
              \o in.category \o in.rest \o in.trail

---------------------------------------------------------------------------
(* ExpenseSheetManager (src/sheets_manager.py).  The worksheet is the      *)
(* sequence of its data rows under the header row                          *)
(* Date, Amount, Category, Description, Timestamp; a Timestamp is the      *)
(* clock's second (the '%Y-%m-%d %H:%M:%S' strings order as the seconds    *)
(* do).  Sums are exact where Python's are floating-point.                 *)

\* an optional argument: absent (Python's None) or a text
NoArg == [given |-> FALSE]
Arg(t) == [given |-> TRUE, text |-> t]

\* a variant of add_expense that swallows the failure of append_row (the
\* "False otherwise" of its docstring) instead of re-raising it
add_expense_ReturnsFalse(ws, exp, now, apiOk) ==
    IF apiOk
    THEN [raised |-> FALSE,
          worksheet |-> Append(ws, [Date |-> exp.date,
                                    Amount |-> exp.amount,
                                    Category |-> exp.category,
                                    Description |-> exp.description,
                                    Timestamp |-> now])]
    ELSE [raised |-> FALSE, worksheet |-> ws]

\* add_expense(expense) at clock `now`; apiOk is whether worksheet.append_row
\* went through (it raises otherwise, and add_expense re-raises)
add_expense(ws, exp, now, apiOk) ==
    IF apiOk
    THEN [raised |-> FALSE,
          worksheet |-> Append(ws, [Date |-> exp.date,
                                    Amount |-> exp.amount,
                                    Category |-> exp.category,
                                    Description |-> exp.description,
                                    Timestamp |-> now])]
    ELSE [raised |-> TRUE, worksheet |-> ws]

\* one step of the stable sort: r goes after every record whose key is not
\* smaller (records of equal key keep the order they came in, also under
\* reverse=True)
InsertByTimestamp(sorted, r) ==
    LET k == Cardinality({i \in 1..Len(sorted) : sorted[i].Timestamp >= r.Timestamp})
    IN  Slice(sorted, 1, k) \o <<r>> \o Slice(sorted, k + 1, Len(sorted))

\* records.sort(key=lambda x: x['Timestamp'], reverse=True)
RECURSIVE SortByTimestamp(_)
SortByTimestamp(records) ==
    IF records = <<>> THEN <<>>
    ELSE InsertByTimestamp(SortByTimestamp(SubSeq(records, 1, Len(records) - 1)),
                           records[Len(records)])

\* records[:count]
Take(records, count) ==
    IF count >= 0
    THEN Slice(records, 1, IF count < Len(records) THEN count ELSE Len(records))
    ELSE Slice(records, 1, Len(records) + count)

\* the dicts get_recent_expenses builds from the records it kept
ToExpenses(recent) ==
    [i \in 1..Len(recent) |->
        [date |-> recent[i].Date,
         amount |-> recent[i].Amount,
         category |-> recent[i].Category,
         description |-> recent[i].Description]]

\* get_recent_expenses(count)
get_recent_expenses(ws, count) == ToExpenses(Take(SortByTimestamp(ws), count))

\* float(r.get('Amount', 0)) goes through for the float literals only:
\* float("$10.0") raises ValueError
FloatRaises(cell) == ~IsAmountText(cell)

RECURSIVE SumAmounts(_)
SumAmounts(records) ==
    IF records = <<>> THEN 0
    ELSE SumAmounts(SubSeq(records, 1, Len(records) - 1))
         + FloatOf(records[Len(records)].Amount)

\* the records get_total_expenses sums for its total
Filtered(ws, category) ==
    IF category.given /\ category.text # <<>>
    THEN SelectSeq(ws, LAMBDA r : Lower(r.Category) = Lower(category.text))
    ELSE ws

\* the total over `filtered`, then the breakdown over all the records; a
\* float() that raises ends the call
TotalAndBreakdown(ws, filtered) ==
    IF \E i \in 1..Len(filtered) : FloatRaises(filtered[i].Amount)
    THEN [raised |-> TRUE]
    ELSE IF \E i \in 1..Len(ws) : FloatRaises(ws[i].Amount)
    THEN [raised |-> TRUE]
    ELSE [raised |-> FALSE,
          total |-> SumAmounts(filtered),
          breakdown |-> [c \in {ws[i].Category : i \in 1..Len(ws)} |->
                            SumAmounts(SelectSeq(ws, LAMBDA r : r.Category = c))]]

\* get_total_expenses(category)
get_total_expenses(ws, category) == TotalAndBreakdown(ws, Filtered(ws, category))

---------------------------------------------------------------------------
(* parse_expense as a function of its text: SpecParse.                     *)

MaxMessages == 2
MaxClock == 1
MaxCount == 3

Manager == [worksheet |-> "Expenses"]

BotInit ==
    /\ sheets_manager = None
    /\ worksheet = <<>>
    /\ clock = 0
    /\ msgs = <<>>
    /\ ready_succeeded = FALSE

InitParse ==
    /\ input \in Inputs
    /\ message = TextOf(input)
    /\ expense = None
    /\ ppc = "call"
    /\ BotInit

\* expense = parse_expense(message.content)
ParseCall ==
    /\ ppc = "call"
    /\ expense' = parse_expense(message, clock)
    /\ ppc' = "returned"
    /\ UNCHANGED <<input, message>>
    /\ UNCHANGED botVars

NextParse == ParseCall

SpecParse == InitParse /\ [][NextParse]_vars

---------------------------------------------------------------------------
(* The handlers of src/bot.py: Spec.  A handler runs without interruption  *)
(* up to an await: on_message up to `await bot.process_commands(message)`  *)
(* (OnMessage, which also runs the command the message invokes), then      *)
(* from there to its end (OnMessageExpense); other handlers and on_ready   *)
(* may run in between.                                                     *)

\* bot.command_prefix
CommandPrefix == <<"!">>

\* the default of recent_command's count
DefaultRecentCount == 5

StartsWith(s, pre) == Len(s) >= Len(pre) /\ SubSeq(s, 1, Len(pre)) = pre

\* the replies the handlers send
Saved(exp) == [kind |-> "saved", amount |-> exp.amount, category |-> exp.category,
               description |-> exp.description]
NotEstablished == [kind |-> "not_established"]
NotUnderstood == [kind |-> "not_understood"]
ErrorReply == [kind |-> "error"]

\* on_ready: the global after ExpenseSheetManager() returned (initOk) or raised
on_ready(sm, initOk) == IF initOk THEN Manager ELSE sm

\* a variant of Accepts without the DMChannel check
Accepts_AnyChannel(m) == m.author # "bot"

\* the two early returns of on_message
Accepts(m) == m.author # "bot" /\ m.channel = "dm"

\* the command name and the first argument discord.py takes from the content
CommandName(content) == Slice(content, 2, SkipNonSpaces(content, 2) - 1)
CommandArg(content) ==
    LET a == SkipSpaces(content, SkipNonSpaces(content, 2))
    IN  IF a > Len(content) THEN NoArg
        ELSE Arg(Slice(content, a, SkipNonSpaces(content, a) - 1))

\* recent_command(ctx, count): what it sends for the expenses it got
RecentReply(expenses) ==
    IF expenses # <<>> THEN <<[kind |-> "recent", expenses |-> expenses]>>
    ELSE <<[kind |-> "no_recent"]>>

recent_command(sm, ws, count) ==
    IF sm # None THEN RecentReply(get_recent_expenses(ws, count))
    ELSE <<NotEstablished>>

\* total_command(ctx, category): what it sends for the result r it got
TotalReply(r, category) ==
    IF r.raised THEN <<ErrorReply>>
    ELSE IF category.given /\ category.text # <<>>
    THEN <<[kind |-> "total", category |-> category.text, total |-> r.total]>>
    ELSE <<[kind |-> "total", total |-> r.total, breakdown |-> r.breakdown]>>

total_command(sm, ws, category) ==
    IF sm # None THEN TotalReply(get_total_expenses(ws, category), category)
    ELSE <<NotEstablished>>

\* the command `name` invoked with the argument `arg`: its replies, none
\* when no such command is modelled or the argument does not convert
Invoke(name, arg, sm, ws) ==
    IF name = <<"r", "e", "c", "e", "n", "t">>
    THEN IF ~arg.given THEN recent_command(sm, ws, DefaultRecentCount)
         ELSE IF SkipDigits(arg.text, 1) = Len(arg.text) + 1
         THEN recent_command(sm, ws, DigitsValue(arg.text))
         ELSE <<>>
    ELSE IF name = <<"t", "o", "t", "a", "l">>
    THEN total_command(sm, ws, arg)
    ELSE <<>>

\* bot.process_commands(message): nothing when the content is no command
process_commands(content, sm, ws) ==
    IF StartsWith(content, CommandPrefix)
    THEN Invoke(CommandName(content), CommandArg(content), sm, ws)
    ELSE <<>>

\* what on_message does with the result r of add_expense
AfterAdd(exp, r) ==
    IF r.raised
    THEN [replies |-> <<ErrorReply>>, worksheet |-> r.worksheet,
          attempts |-> 1, raised |-> TRUE]
    ELSE [replies |-> <<Saved(exp)>>, worksheet |-> r.worksheet,
          attempts |-> 1, raised |-> FALSE]

\* a variant of HandleExpense that tests sheets_manager before expense
HandleExpense_ManagerFirst(exp, sm, ws, now, apiOk) ==
    IF sm = None
    THEN [replies |-> <<NotEstablished>>, worksheet |-> ws,
          attempts |-> 0, raised |-> FALSE]
    ELSE IF exp = None
    THEN [replies |-> <<NotUnderstood>>, worksheet |-> ws,
          attempts |-> 0, raised |-> FALSE]
    ELSE AfterAdd(exp, add_expense(ws, exp, now, apiOk))

\* on_message from `if expense:` on: the replies sent, the worksheet left,
\* and for the history whether add_expense was called and whether it raised
HandleExpense(exp, sm, ws, now, apiOk) ==
    IF exp # None
    THEN IF sm # None
         THEN AfterAdd(exp, add_expense(ws, exp, now, apiOk))
         ELSE [replies |-> <<NotEstablished>>, worksheet |-> ws,
               attempts |-> 0, raised |-> FALSE]
    ELSE [replies |-> <<NotUnderstood>>, worksheet |-> ws,
          attempts |-> 0, raised |-> FALSE]

\* on_message from `if not message.content.startswith(bot.command_prefix)`
ExpenseBranch(content, sm, ws, now, apiOk) ==
    IF StartsWith(content, CommandPrefix)
    THEN [replies |-> <<>>, worksheet |-> ws, attempts |-> 0, raised |-> FALSE]
    ELSE HandleExpense(parse_expense(content, now), sm, ws, now, apiOk)

\* the messages the gateway delivers
UserContents == {<<"1", "0", " ", "f", "o", "o", "d">>,
                 <<"$", "5", " ", "f", "o", "o", "d">>,
                 <<"2", "0", " ", "g", "a", "s">>,
                 <<"h", "e", "l", "l", "o">>,
                 <<"!", "r", "e", "c", "e", "n", "t", " ", "1">>,
                 <<"!", "t", "o", "t", "a", "l", " ", "F", "o", "o", "d">>}
MessageKinds ==
    [content : UserContents, author : {"user"}, channel : {"dm"}]
    \cup [content : {<<"1", "0", " ", "f", "o", "o", "d">>},
          author : {"bot"}, channel : {"dm"}]
    \cup [content : {<<"1", "0", " ", "f", "o", "o", "d">>},
          author : {"user"}, channel : {"guild"}]

Init ==
    /\ BotInit
    /\ input = [lead |-> <<>>, marker |-> <<>>, gap |-> <<>>, amount |-> <<>>,
                sep |-> <<>>, category |-> <<>>, rest |-> <<>>, trail |-> <<>>]
    /\ message = <<>>
    /\ expense = None
    /\ ppc = "unused"

\* on_ready, ExpenseSheetManager() returning
OnReadyOk ==
    /\ sheets_manager' = on_ready(sheets_manager, TRUE)
    /\ ready_succeeded' = TRUE
    /\ UNCHANGED <<worksheet, clock, msgs>>
    /\ UNCHANGED parseVars

\* on_ready, ExpenseSheetManager() raising: logged, the global left as it was
OnReadyFail ==
    /\ sheets_manager' = on_ready(sheets_manager, FALSE)
    /\ UNCHANGED <<worksheet, clock, msgs, ready_succeeded>>
    /\ UNCHANGED parseVars

\* on_message up to the end of `await bot.process_commands(message)`
OnMessage(m) ==
    /\ Len(msgs) < MaxMessages
    /\ msgs' = Append(msgs,
          [content |-> m.content, author |-> m.author, channel |-> m.channel,
           pc |-> IF Accepts(m) THEN "commands_done" ELSE "done",
           replies |-> IF Accepts(m)
                       THEN process_commands(m.content, sheets_manager, worksheet)
                       ELSE <<>>,
           attempts |-> 0, raised |-> FALSE, rows |-> 0, changed |-> FALSE,
           manager |-> "unchecked"])
    /\ UNCHANGED <<sheets_manager, worksheet, clock, ready_succeeded>>
    /\ UNCHANGED parseVars

\* the i-th message's handler ends with the outcome `out`
Finish(i, out) ==
    /\ worksheet' = out.worksheet
    /\ msgs' = [msgs EXCEPT
          ![i].pc = "done",
          ![i].replies = @ \o out.replies,
          ![i].attempts = @ + out.attempts,
          ![i].raised = out.raised,
          ![i].rows = @ + Len(out.worksheet) - Len(worksheet),
          ![i].changed = out.worksheet # worksheet,
          ![i].manager = IF sheets_manager # None THEN "set" ELSE "unset"]

\* on_message from there to its end, for the i-th message
OnMessageExpense(i, apiOk) ==
    /\ msgs[i].pc = "commands_done"
    /\ Finish(i, ExpenseBranch(msgs[i].content, sheets_manager, worksheet, clock, apiOk))
    /\ UNCHANGED <<sheets_manager, clock, ready_succeeded>>
    /\ UNCHANGED parseVars

\* a second passes
Tick ==
    /\ clock < MaxClock
    /\ clock' = clock + 1
    /\ UNCHANGED <<sheets_manager, worksheet, msgs, ready_succeeded>>
    /\ UNCHANGED parseVars

Next ==
    \/ OnReadyOk
    \/ OnReadyFail
    \/ \E m \in MessageKinds : OnMessage(m)
    \/ \E i \in 1..Len(msgs) : \E apiOk \in BOOLEAN : OnMessageExpense(i, apiOk)
    \/ Tick

Spec == Init /\ [][Next]_vars

---------------------------------------------------------------------------
(* The claims about parse_expense, under SpecParse.                        *)

Returned == ppc = "returned"

\* a well-formed amount token, and one that is positive
WellFormed(a) == IsAmountText(a)
Positive(a) == IsAmountText(a) /\ FloatOf(a) > 0

\* the text begins with the marker
Marked(amount, marker) == StartsWith(amount, Upper(marker))

\* C1: an input whose amount token (set off by whitespace from what follows)
\* is zero or malformed makes parse_expense return None, never a record.
C1_BadAmountFails ==
    (/\ Returned
     /\ input.amount # <<>> /\ ~Positive(input.amount)
     /\ input.sep # <<>> /\ input.category # <<>>)
        => expense = None

\* C2: for every marker m of the table ($, ₹, €, ¥, £, USD, INR, EUR, GBP,
\* JPY, codes in any letter case), every well-formed positive amount a and
\* every category token c, parse_expense(m + a + " " + c) gives a record whose
\* amount is the upper-cased marker followed by the amount.
C2_EveryMarkerAccepted ==
    (/\ Returned
     /\ input.lead = <<>> /\ input.trail = <<>> /\ input.gap = <<>> /\ input.rest = <<>>
     /\ input.marker # <<>>
     /\ Positive(input.amount)
     /\ input.sep = <<" ">>
     /\ input.category # <<>>)
        => /\ expense # None
           /\ expense.amount = Upper(input.marker) \o FloatStr(FloatOf(input.amount))

\* C3: for every input [marker]<amount> <token> [<rest>] with a positive
\* amount, parse_expense gives a record whose category is the lower-cased
\* token, whatever the token is.
C3_CategoryIsFirstToken ==
    (/\ Returned
     /\ input.gap = <<>>
     /\ Positive(input.amount)
     /\ input.sep # <<>>
     /\ input.category # <<>>)
        => /\ expense # None
           /\ expense.category = Lower(input.category)

\* the text after the category token of the stripped text s and the spaces
\* that follow it, found by counting tokens: the category is the token after
\* the amount token, which is the first token unless that is a marker
\* standing alone (no digit in it)
RemainderAfterCategory(s) ==
    LET t1 == SkipNonSpaces(s, 1)
        alone == \A i \in 1..(t1 - 1) : ~IsDigit(s[i])
        amountEnd == IF alone THEN SkipNonSpaces(s, SkipSpaces(s, t1)) ELSE t1
        categoryEnd == SkipNonSpaces(s, SkipSpaces(s, amountEnd))
    IN  Slice(s, SkipSpaces(s, categoryEnd), Len(s))

\* C4: for every accepted input the description is, character for character,
\* the text that remains after the category token and the spaces following
\* it (empty when nothing remains).
C4_DescriptionVerbatim ==
    (Returned /\ expense # None)
        => expense.description = RemainderAfterCategory(Strip(message))

\* C4's case: "$10 food buy milk and eggs" gives "buy milk and eggs"
C4_Witness ==
    /\ Returned
    /\ message = <<"$", "1", "0", " ", "f", "o", "o", "d", " ", "b", "u", "y", " ", "m", "i", "l", "k", " ", "a", "n", "d", " ", "e", "g", "g", "s">>
    /\ expense # None
    /\ expense.description = <<"b", "u", "y", " ", "m", "i", "l", "k", " ", "a", "n", "d", " ", "e", "g", "g", "s">>

\* C5: a symbol is taken as the marker only when nothing separates it from
\* the amount ("$10 lunch" is accepted with marker $, "$ 10 lunch" is not
\* accepted as a $-marked amount), while a code may be set off by whitespace
\* ("USD 10 lunch" is accepted with marker USD).
C5_SymbolAdjacentCodeSeparable ==
    Returned =>
        /\ (input.marker \in SymbolMarkers /\ input.gap # <<>>)
              => ~(expense # None /\ Marked(expense.amount, input.marker))
        /\ (/\ input.marker \in {<<"$">>, <<"U", "S", "D">>}
            /\ (input.marker = <<"$">> => input.gap = <<>>)
            /\ Positive(input.amount)
            /\ input.sep # <<>> /\ input.category # <<>> /\ input.rest = <<>>)
              => (expense # None /\ Marked(expense.amount, input.marker))

---------------------------------------------------------------------------
(* The claims about the sheet manager and the handlers, under Spec.        *)

\* the n most recently appended records, the newest first
NewestAppended(ws, n) ==
    [i \in 1..(IF n < Len(ws) THEN n ELSE Len(ws)) |-> ws[Len(ws) - i + 1]]

\* C6: whatever was appended (several records in one second included),
\* get_recent_expenses(n) returns the min(n, number of records) most recently
\* appended records, the newest first.
C6_RecentNewestFirst ==
    \A n \in 0..MaxCount :
        get_recent_expenses(worksheet, n) = ToExpenses(NewestAppended(worksheet, n))

\* the number an Amount cell stands for: the amount after its marker
AmountValue(cell) ==
    FloatOf(Slice(cell, CHOOSE i \in 1..Len(cell) :
                           IsDigit(cell[i]) /\ \A j \in 1..(i - 1) : ~IsDigit(cell[j]),
                  Len(cell)))

RECURSIVE SumValues(_)
SumValues(records) ==
    IF records = <<>> THEN 0
    ELSE SumValues(SubSeq(records, 1, Len(records) - 1))
         + AmountValue(records[Len(records)].Amount)

\* the filters the totals are asked with: none, and categories in either case
TotalFilters == {NoArg,
                 Arg(<<"f", "o", "o", "d">>),
                 Arg(<<"F", "o", "o", "d">>),
                 Arg(<<"g", "a", "s">>)}

\* C7: with records of parse_expense appended (with or without a marker),
\* get_total_expenses(c) returns the sum of the amounts of the records whose
\* category is c in any letter case (of all records without c), and the
\* sums per category over all the records.
C7_TotalByCategory ==
    \A c \in TotalFilters :
        get_total_expenses(worksheet, c) =
            [raised |-> FALSE,
             total |-> SumValues(SelectSeq(worksheet,
                          LAMBDA r : ~c.given \/ Lower(r.Category) = Lower(c.text))),
             breakdown |-> [k \in {worksheet[i].Category : i \in 1..Len(worksheet)} |->
                              SumValues(SelectSeq(worksheet, LAMBDA r : r.Category = k))]]

\* a direct message of a user that is no command
IsExpenseMessage(m) ==
    m.author = "user" /\ m.channel = "dm" /\ ~StartsWith(m.content, CommandPrefix)

Parses(content) == parse_expense(content, 0) # None

\* C8: a direct message whose text fails to parse gets the "couldn't
\* understand" reply and nothing else happens: add_expense is not called and
\* the worksheet is left as it was, with the manager set or not.
C8_ParseFailureOnlyReplies ==
    \A i \in 1..Len(msgs) :
        (msgs[i].pc = "done" /\ IsExpenseMessage(msgs[i]) /\ ~Parses(msgs[i].content))
            => /\ msgs[i].replies = <<NotUnderstood>>
               /\ msgs[i].attempts = 0
               /\ msgs[i].rows = 0
               /\ ~msgs[i].changed

\* C8's case: such a message handled while the manager was set
C8_Witness ==
    \E i \in 1..Len(msgs) :
        /\ msgs[i].pc = "done" /\ IsExpenseMessage(msgs[i]) /\ ~Parses(msgs[i].content)
        /\ msgs[i].manager = "set"
        /\ msgs[i].replies = <<NotUnderstood>>
        /\ worksheet = <<>>

IsSaved(reply) == reply.kind = "saved"

RECURSIVE RowsAppended(_)
RowsAppended(ms) ==
    IF ms = <<>> THEN 0
    ELSE RowsAppended(SubSeq(ms, 1, Len(ms) - 1)) + ms[Len(ms)].rows

\* C10: in every interleaving of on_ready and on_message, every row of the
\* worksheet was appended for a direct message of a user that is no command,
\* parses, and was handled while the manager was set, which only an on_ready
\* that succeeded does; a message that parses handled while the manager was
\* unset appends nothing and gets the "connection not established" reply.
C10_AppendOnlyWhenReady ==
    /\ Len(worksheet) = RowsAppended(msgs)
    /\ sheets_manager # None => ready_succeeded
    /\ \A i \in 1..Len(msgs) :
          /\ msgs[i].rows > 0
                => /\ IsExpenseMessage(msgs[i])
                   /\ Parses(msgs[i].content)
                   /\ msgs[i].manager = "set"
                   /\ ready_succeeded
          /\ (/\ msgs[i].pc = "done" /\ IsExpenseMessage(msgs[i])
              /\ Parses(msgs[i].content) /\ msgs[i].manager = "unset")
                => /\ msgs[i].rows = 0
                   /\ msgs[i].replies = <<NotEstablished>>

\* C10's case: a message handled before the manager was set, refused, and a
\* later one handled after on_ready succeeded, appended
C10_Witness ==
    /\ Len(msgs) = 2
    /\ msgs[1].manager = "unset" /\ Parses(msgs[1].content)
    /\ msgs[1].replies = <<NotEstablished>>
    /\ msgs[2].manager = "set" /\ msgs[2].rows = 1
    /\ Len(worksheet) = 1

---------------------------------------------------------------------------
(* What holds of the cases the claims C1, C3, C6 and C7 fail on.           *)

\* C1, the malformed amounts alone: they make parse_expense return None
C1_MalformedAmountFails ==
    (/\ Returned
     /\ input.amount # <<>> /\ ~WellFormed(input.amount)
     /\ input.sep # <<>> /\ input.category # <<>>)
        => expense = None

\* C3, with a marker the pattern knows (or none) and a remainder on one line
C3_KnownMarkerOneLine ==
    (/\ Returned
     /\ input.gap = <<>>
     /\ Positive(input.amount)
     /\ input.sep # <<>>
     /\ input.category # <<>>
     /\ input.marker # <<>> =>
            \/ input.marker[1] \in CurrencySymbols
            \/ Upper(input.marker) \in CurrencyCodes
     /\ \A i \in 1..Len(input.rest) : input.rest[i] # "\n")
        => /\ expense # None
           /\ expense.category = Lower(input.category)

\* C6, with no two records appended in the same second
C6_DistinctSeconds ==
    (\A i, j \in 1..Len(worksheet) :
        i < j => worksheet[i].Timestamp < worksheet[j].Timestamp)
        => C6_RecentNewestFirst

\* C7, with no marker in any Amount cell
C7_UnmarkedAmounts ==
    (\A i \in 1..Len(worksheet) : IsAmountText(worksheet[i].Amount))
        => C7_TotalByCategory

===========================================================================
